---- MODULE Spec2Model ----
(***************************************************************************)
(* Session simulator (src/.research/session-simulator/simulate.py): the    *)
(* token economics of field-name aliases over one agent session.           *)
(*                                                                         *)
(* One behaviour is one call of simulate_session on one scenario, executed *)
(* statement block by statement block.  Numbers that are floats in the     *)
(* source (eviction_rate, avg_saving_per_query, break_even) are exact      *)
(* rationals extended with float('inf'); on the scenarios enumerated here  *)
(* the float comparisons of the source agree with the exact ones.          *)
(*                                                                         *)
(* Spec: simulate_session followed by main()'s conversion for results.json.*)
(* TurnSpec: the same scenario played turn by turn, fetching the alias     *)
(* dictionary whenever it is missing from the context.                     *)
(***************************************************************************)
EXTENDS Integers, Sequences, FiniteSets, TLC

VARIABLES
    AVG_LIST_ITEMS,        \* module global: average items per list() query
    session_length,        \* argument of simulate_session
    eviction_rate,         \* argument of simulate_session (number or inf)
    output_format,         \* argument of simulate_session
    pc,                    \* position inside simulate_session
    schema_calls,
    total_schema_cost,
    total_savings,
    query_breakdown,
    mix_idx,               \* position of the loop over QUERY_MIX.items()
    net_balance,
    avg_saving_per_query,
    break_even,
    results,               \* main(): results.append(result)
    serializable,          \* main(): the list dumped to results.json
    turn,                  \* turn-by-turn session: turns played so far
    last_fetch,            \* turn of the latest dictionary fetch (0: none)
    fetches,               \* number of dictionary fetches so far
    fetch_turns            \* the turns at which the dictionary was fetched

vars == <<AVG_LIST_ITEMS, session_length, eviction_rate, output_format, pc,
          schema_calls, total_schema_cost, total_savings, query_breakdown,
          mix_idx, net_balance, avg_saving_per_query, break_even, results,
          serializable, turn, last_fetch, fetches, fetch_turns>>

sim_vars == <<AVG_LIST_ITEMS, session_length, eviction_rate, output_format,
              pc, schema_calls, total_schema_cost, total_savings,
              query_breakdown, mix_idx, net_balance, avg_saving_per_query,
              break_even, results, serializable>>

turn_vars == <<turn, last_fetch, fetches, fetch_turns>>

----------------------------------------------------------------------------
(* Bounds of the enumerated scenarios *)

MaxSessionLength == 24
MaxEviction == 24

----------------------------------------------------------------------------
(* Numbers: exact rationals num/den in lowest terms, or float('inf') *)

RECURSIVE GCD(_, _)
GCD(a, b) == IF b = 0 THEN a ELSE GCD(b, a % b)

Fin(n, d) == LET g == GCD(n, d)
             IN  [inf |-> FALSE, num |-> n \div g, den |-> d \div g]

Int2Num(n) == [inf |-> FALSE, num |-> n, den |-> 1]

INF == [inf |-> TRUE, num |-> 1, den |-> 0]

\* the outcome of "/" with a zero divisor: the exception, not a number
ZeroDivisionError == [inf |-> FALSE, num |-> 0, den |-> 0]

\* Python "a / b" on finite non-negative numbers
TrueDiv(a, b) == IF b.num = 0 THEN ZeroDivisionError
                 ELSE Fin(a.num * b.den, a.den * b.num)

\* Python "a * b" on finite numbers
Mul(a, b) == Fin(a.num * b.num, a.den * b.den)

\* Python "a > b"
Gt(a, b) == IF a.inf THEN ~b.inf
            ELSE IF b.inf THEN FALSE
            ELSE a.num * b.den > b.num * a.den

\* Python "a <= b"
Leq(a, b) == ~Gt(a, b)

\* Python int(x) on a finite non-negative number
ToInt(x) == x.num \div x.den

Max(a, b) == IF a >= b THEN a ELSE b

----------------------------------------------------------------------------
(* Measured constants *)

SCHEMA_CALL_TOKENS == 10
SCHEMA_RESPONSE_TOKENS == 71
SCHEMA_RESULT_OVERHEAD == 4

SCHEMA_TOTAL_ROUNDTRIP_no_overhead == SCHEMA_CALL_TOKENS + SCHEMA_RESPONSE_TOKENS

SCHEMA_TOTAL_ROUNDTRIP ==
    SCHEMA_CALL_TOKENS + SCHEMA_RESPONSE_TOKENS + SCHEMA_RESULT_OVERHEAD

ALIAS_SAVINGS_PER_QUERY ==
    [compact_list |-> 5, compact_get |-> 5, json_get |-> 3,
     json_list_per_item |-> 3]

(* Simulation parameters *)

SESSION_LENGTHS == {10, 20, 50, 100}
CONTEXT_EVICTION_RATES == {Int2Num(10), Int2Num(20), Int2Num(50), INF}
OUTPUT_FORMATS == {"compact", "json"}

\* dict in insertion order; a proportion p is the rational num/den
QUERY_MIX ==
    << [qtype |-> "get",     num |-> 50, den |-> 100],
       [qtype |-> "list",    num |-> 30, den |-> 100],
       [qtype |-> "summary", num |-> 10, den |-> 100],
       [qtype |-> "other",   num |-> 10, den |-> 100] >>

\* values of the module global AVG_LIST_ITEMS (10 in the source)
AvgListItemsChoices == {1, 5, 10, 20}

\* scenarios: the grid of main() and every small scenario around it
SessionLengths == (0 .. MaxSessionLength) \cup SESSION_LENGTHS
EvictionRates ==
    {Int2Num(k) : k \in 1 .. MaxEviction} \cup CONTEXT_EVICTION_RATES

----------------------------------------------------------------------------
(* calculate_schema_calls *)

calculate_schema_calls_off_by_one(n, k) ==
    IF k.inf THEN 1
    ELSE 1 + Max(0, n \div ToInt(k))

calculate_schema_calls_no_bootstrap_never(n, k) ==
    IF k.inf THEN 0
    ELSE 1 + Max(0, (n - 1) \div ToInt(k))

calculate_schema_calls_modulo(n, k) ==
    IF k.inf THEN 1
    ELSE 1 + Max(0, (n - 1) % ToInt(k))

calculate_schema_calls_no_bootstrap(n, k) ==
    IF k.inf THEN 1
    ELSE Max(0, (n - 1) \div ToInt(k))

calculate_schema_calls(n, k) ==
    IF k.inf THEN 1
    ELSE 1 + Max(0, (n - 1) \div ToInt(k))

----------------------------------------------------------------------------
(* calculate_alias_savings_per_query; avg is the global AVG_LIST_ITEMS *)

alias_savings_compact_scales(avg, fmt, qtype) ==
    IF qtype = "other" \/ qtype = "summary" THEN 0
    ELSE IF fmt = "compact"
         THEN IF qtype = "list"
              THEN ALIAS_SAVINGS_PER_QUERY.compact_list * avg
              ELSE ALIAS_SAVINGS_PER_QUERY.compact_list
    ELSE IF qtype = "get" THEN ALIAS_SAVINGS_PER_QUERY.json_get
    ELSE IF qtype = "list"
         THEN ALIAS_SAVINGS_PER_QUERY.json_list_per_item * avg
    ELSE 0

alias_savings_json_list_flat(avg, fmt, qtype) ==
    IF qtype = "other" \/ qtype = "summary" THEN 0
    ELSE IF fmt = "compact" THEN ALIAS_SAVINGS_PER_QUERY.compact_list
    ELSE IF qtype = "get" THEN ALIAS_SAVINGS_PER_QUERY.json_get
    ELSE IF qtype = "list" THEN ALIAS_SAVINGS_PER_QUERY.json_list_per_item
    ELSE 0

alias_savings_summary_counts(avg, fmt, qtype) ==
    IF qtype = "other" THEN 0
    ELSE IF fmt = "compact" THEN ALIAS_SAVINGS_PER_QUERY.compact_list
    ELSE IF qtype = "get" THEN ALIAS_SAVINGS_PER_QUERY.json_get
    ELSE IF qtype = "list"
         THEN ALIAS_SAVINGS_PER_QUERY.json_list_per_item * avg
    ELSE ALIAS_SAVINGS_PER_QUERY.json_get

alias_savings(avg, fmt, qtype) ==
    IF qtype = "other" \/ qtype = "summary" THEN 0
    ELSE IF fmt = "compact" THEN ALIAS_SAVINGS_PER_QUERY.compact_list
    ELSE IF qtype = "get" THEN ALIAS_SAVINGS_PER_QUERY.json_get
    ELSE IF qtype = "list"
         THEN ALIAS_SAVINGS_PER_QUERY.json_list_per_item * avg
    ELSE 0

calculate_alias_savings_per_query(fmt, qtype) ==
    alias_savings(AVG_LIST_ITEMS, fmt, qtype)

----------------------------------------------------------------------------
(* simulate_session: the expressions of the break-even block *)

\* line 136; ts = total_savings, n = session_length
avg_saving_unguarded(ts, n) == TrueDiv(Int2Num(ts), Int2Num(n))

avg_saving(ts, n) ==
    IF n > 0 THEN TrueDiv(Int2Num(ts), Int2Num(n)) ELSE Int2Num(0)

\* line 139
cycle_length(k, n) == IF ~k.inf THEN k ELSE Int2Num(n)

\* lines 137-146; avg = avg_saving_per_query, k = eviction_rate
break_even_point_geq(avg, k, n) ==
    IF Gt(avg, Int2Num(0))
    THEN LET savings_per_cycle == Mul(avg, cycle_length(k, n))
         IN  IF ~Gt(Int2Num(SCHEMA_TOTAL_ROUNDTRIP), savings_per_cycle)
             THEN TrueDiv(Int2Num(SCHEMA_TOTAL_ROUNDTRIP), avg)
             ELSE INF
    ELSE INF

break_even_point_inverted(avg, k, n) ==
    IF Gt(avg, Int2Num(0))
    THEN LET savings_per_cycle == Mul(avg, cycle_length(k, n))
         IN  IF Gt(Int2Num(SCHEMA_TOTAL_ROUNDTRIP), savings_per_cycle)
             THEN TrueDiv(Int2Num(SCHEMA_TOTAL_ROUNDTRIP), avg)
             ELSE INF
    ELSE INF

break_even_point(avg, k, n) ==
    IF Gt(avg, Int2Num(0))
    THEN LET savings_per_cycle == Mul(avg, cycle_length(k, n))
         IN  IF Gt(savings_per_cycle, Int2Num(SCHEMA_TOTAL_ROUNDTRIP))
             THEN TrueDiv(Int2Num(SCHEMA_TOTAL_ROUNDTRIP), avg)
             ELSE INF
    ELSE INF

----------------------------------------------------------------------------
(* State machine *)

NoBreakdown == [q \in {} |-> 0]

Init ==
    /\ AVG_LIST_ITEMS \in AvgListItemsChoices
    /\ session_length \in SessionLengths
    /\ eviction_rate \in EvictionRates
    /\ output_format \in OUTPUT_FORMATS
    /\ pc = "schema"
    /\ schema_calls = 0
    /\ total_schema_cost = 0
    /\ total_savings = 0
    /\ query_breakdown = NoBreakdown
    /\ mix_idx = 1
    /\ net_balance = 0
    /\ avg_saving_per_query = Int2Num(0)
    /\ break_even = INF
    /\ results = << >>
    /\ serializable = << >>
    /\ turn = 0
    /\ last_fetch = 0
    /\ fetches = 0
    /\ fetch_turns = {}

\* lines 115-120
SchemaOverhead ==
    /\ pc = "schema"
    /\ schema_calls' = calculate_schema_calls(session_length, eviction_rate)
    /\ total_schema_cost' = schema_calls' * SCHEMA_TOTAL_ROUNDTRIP
    /\ total_savings' = 0
    /\ query_breakdown' = NoBreakdown
    /\ mix_idx' = 1
    /\ pc' = "mix"
    /\ UNCHANGED <<AVG_LIST_ITEMS, session_length, eviction_rate,
                   output_format, net_balance, avg_saving_per_query,
                   break_even, results>>
    /\ UNCHANGED <<serializable, turn_vars>>

AccumulateQueryType_overwrites_total ==
    /\ pc = "mix"
    /\ mix_idx <= Len(QUERY_MIX)
    /\ LET qtype == QUERY_MIX[mix_idx].qtype
           n_queries == (session_length * QUERY_MIX[mix_idx].num)
                            \div QUERY_MIX[mix_idx].den
           per_query_saving ==
               calculate_alias_savings_per_query(output_format, qtype)
           type_savings == n_queries * per_query_saving
       IN  /\ total_savings' = type_savings
           /\ query_breakdown' = query_breakdown @@
                  (qtype :> [count |-> n_queries,
                             savings_per_query |-> per_query_saving,
                             total_savings |-> type_savings])
    /\ mix_idx' = mix_idx + 1
    /\ pc' = IF mix_idx = Len(QUERY_MIX) THEN "net" ELSE "mix"
    /\ UNCHANGED <<AVG_LIST_ITEMS, session_length, eviction_rate,
                   output_format, schema_calls, total_schema_cost,
                   net_balance, avg_saving_per_query, break_even, results>>
    /\ UNCHANGED <<serializable, turn_vars>>

\* lines 122-131: one iteration of the loop over QUERY_MIX.items()
AccumulateQueryType ==
    /\ pc = "mix"
    /\ mix_idx <= Len(QUERY_MIX)
    /\ LET qtype == QUERY_MIX[mix_idx].qtype
           n_queries == (session_length * QUERY_MIX[mix_idx].num)
                            \div QUERY_MIX[mix_idx].den
           per_query_saving ==
               calculate_alias_savings_per_query(output_format, qtype)
           type_savings == n_queries * per_query_saving
       IN  /\ total_savings' = total_savings + type_savings
           /\ query_breakdown' = query_breakdown @@
                  (qtype :> [count |-> n_queries,
                             savings_per_query |-> per_query_saving,
                             total_savings |-> type_savings])
    /\ mix_idx' = mix_idx + 1
    /\ pc' = IF mix_idx = Len(QUERY_MIX) THEN "net" ELSE "mix"
    /\ UNCHANGED <<AVG_LIST_ITEMS, session_length, eviction_rate,
                   output_format, schema_calls, total_schema_cost,
                   net_balance, avg_saving_per_query, break_even, results>>
    /\ UNCHANGED <<serializable, turn_vars>>

\* line 133
NetBalance ==
    /\ pc = "net"
    /\ net_balance' = total_savings - total_schema_cost
    /\ pc' = "breakeven"
    /\ UNCHANGED <<AVG_LIST_ITEMS, session_length, eviction_rate,
                   output_format, schema_calls, total_schema_cost,
                   total_savings, query_breakdown, mix_idx,
                   avg_saving_per_query, break_even, results>>
    /\ UNCHANGED <<serializable, turn_vars>>

\* lines 135-146; a division by zero raises and the call returns nothing
BreakEven ==
    /\ pc = "breakeven"
    /\ LET avg == avg_saving(total_savings, session_length)
       IN  IF avg = ZeroDivisionError
           THEN /\ pc' = "raised"
                /\ UNCHANGED <<avg_saving_per_query, break_even>>
           ELSE LET be == break_even_point(avg, eviction_rate, session_length)
                IN  /\ avg_saving_per_query' = avg
                    /\ IF be = ZeroDivisionError
                       THEN /\ pc' = "raised"
                            /\ UNCHANGED break_even
                       ELSE /\ pc' = "return"
                            /\ break_even' = be
    /\ UNCHANGED <<AVG_LIST_ITEMS, session_length, eviction_rate,
                   output_format, schema_calls, total_schema_cost,
                   total_savings, query_breakdown, mix_idx, net_balance,
                   results>>
    /\ UNCHANGED <<serializable, turn_vars>>

\* lines 148-159, and main() line 174
Return ==
    /\ pc = "return"
    /\ results' = Append(results,
           [session_length |-> session_length,
            eviction_rate |-> eviction_rate,
            output_format |-> output_format,
            schema_calls |-> schema_calls,
            total_schema_cost |-> total_schema_cost,
            total_alias_savings |-> total_savings,
            net_balance |-> net_balance,
            break_even_queries |-> break_even,
            avg_saving_per_query |-> avg_saving_per_query,
            query_breakdown |-> query_breakdown])
    /\ pc' = "done"
    /\ UNCHANGED <<AVG_LIST_ITEMS, session_length, eviction_rate,
                   output_format, schema_calls, total_schema_cost,
                   total_savings, query_breakdown, mix_idx, net_balance,
                   avg_saving_per_query, break_even>>
    /\ UNCHANGED <<serializable, turn_vars>>

----------------------------------------------------------------------------
(* main(): conversion of the results for results.json *)

\* text is a sequence of characters
NEVER == <<"n", "e", "v", "e", "r">>

DigitChars == <<"0", "1", "2", "3", "4", "5", "6", "7", "8", "9">>

\* Python str(n) for an int n >= 0: the decimal digits
RECURSIVE str(_)
str(n) == IF n < 10 THEN <<DigitChars[n + 1]>>
          ELSE str(n \div 10) \o <<DigitChars[(n % 10) + 1]>>

\* the values json.dump receives: a str or a number
JsonString(text) == [type |-> "string", text |-> text, value |-> Int2Num(0)]
JsonNumber(x) == [type |-> "number", text |-> << >>, value |-> x]

format_eviction_zero_for_never(k) ==
    IF k.inf THEN str(0) ELSE str(ToInt(k))

\* lines 162-163
format_eviction(k) == IF k.inf THEN NEVER ELSE str(ToInt(k))

serialize_break_even_unconverted(be) == JsonNumber(be)

\* lines 341-344
serialize_break_even(be) ==
    IF ~be.inf THEN JsonNumber(be) ELSE JsonString(NEVER)

\* lines 337-345: r_copy = dict(r) with the two fields replaced
Serialize ==
    /\ pc = "done"
    /\ serializable' =
           [i \in DOMAIN results |->
               [results[i] EXCEPT
                   !.eviction_rate =
                       JsonString(format_eviction(results[i].eviction_rate)),
                   !.break_even_queries =
                       serialize_break_even(results[i].break_even_queries)]]
    /\ pc' = "serialized"
    /\ UNCHANGED <<AVG_LIST_ITEMS, session_length, eviction_rate,
                   output_format, schema_calls, total_schema_cost,
                   total_savings, query_breakdown, mix_idx, net_balance,
                   avg_saving_per_query, break_even, results>>
    /\ UNCHANGED turn_vars

Next ==
    \/ SchemaOverhead
    \/ AccumulateQueryType
    \/ NetBalance
    \/ BreakEven
    \/ Return
    \/ Serialize

Spec == Init /\ [][Next]_vars

----------------------------------------------------------------------------
(* The session turn by turn: the agent fetches the alias dictionary at its
   first turn; a fetched dictionary stays in context for eviction_rate turns
   (for ever when the rate is "never") and is fetched again at the first
   turn that finds it evicted. *)

DictionaryMissing(t) ==
    \/ last_fetch = 0
    \/ ~eviction_rate.inf /\ t - last_fetch >= ToInt(eviction_rate)

FetchTurn ==
    /\ turn < session_length
    /\ DictionaryMissing(turn + 1)
    /\ turn' = turn + 1
    /\ last_fetch' = turn + 1
    /\ fetches' = fetches + 1
    /\ fetch_turns' = fetch_turns \cup {turn + 1}
    /\ UNCHANGED sim_vars

CoveredTurn ==
    /\ turn < session_length
    /\ ~DictionaryMissing(turn + 1)
    /\ turn' = turn + 1
    /\ UNCHANGED <<last_fetch, fetches, fetch_turns>>
    /\ UNCHANGED sim_vars

TurnNext ==
    \/ FetchTurn
    \/ CoveredTurn

TurnSpec == Init /\ [][TurnNext]_vars

----------------------------------------------------------------------------
(* Properties *)

TypeOK ==
    /\ pc \in {"schema", "mix", "net", "breakeven", "return", "done", "raised",
              "serialized"}
    /\ Len(results) = IF pc \in {"done", "serialized"} THEN 1 ELSE 0
    /\ Len(serializable) = IF pc = "serialized" THEN 1 ELSE 0

\* the result appended by the finished call
R == results[1]

DataQueryTypes == {"get", "list"}
NoSavingQueryTypes == {"summary", "other"}

\* C1: for session_length >= 1 and a finite eviction_rate >= 1 the number of
\* schema calls is exactly 1 + floor((session_length - 1) / eviction_rate).
C1_SchemaCallsFormula ==
    (pc # "schema" /\ session_length >= 1 /\ ~eviction_rate.inf)
        => schema_calls = 1 + (session_length - 1) \div ToInt(eviction_rate)

C1_Witness ==
    /\ pc = "done"
    /\ session_length = 21
    /\ eviction_rate = Int2Num(10)
    /\ R.schema_calls = 3

\* C2: sentinel invariance: with eviction_rate "never" and session_length >= 1
\* calculate_schema_calls returns 1, and the result of simulate_session has
\* schema_calls = 1 and total_schema_cost = one schema round trip.
C2_SentinelInvariance ==
    (session_length >= 1 /\ eviction_rate.inf)
        => /\ calculate_schema_calls(session_length, eviction_rate) = 1
           /\ pc = "done" =>
                  /\ R.schema_calls = 1
                  /\ R.total_schema_cost = SCHEMA_TOTAL_ROUNDTRIP

C2_Witness ==
    /\ pc = "done"
    /\ session_length = 100
    /\ eviction_rate = INF
    /\ R.schema_calls = 1
    /\ R.total_schema_cost = 85

\* C3: monotonicity: for the session's length (>= 1), every eviction rate at
\* least as tolerant as the session's own ("never" above every finite rate)
\* needs no more schema calls than the session made.
C3_Monotonicity ==
    (pc # "schema" /\ session_length >= 1)
        => \A k2 \in EvictionRates :
               Leq(eviction_rate, k2)
                   => calculate_schema_calls(session_length, k2) <= schema_calls

C3_Witness ==
    /\ pc = "done"
    /\ session_length = 20
    /\ eviction_rate = Int2Num(10)
    /\ schema_calls = 2
    /\ calculate_schema_calls(session_length, Int2Num(20)) = 1
    /\ calculate_schema_calls(session_length, INF) = 1

\* C4: for valid input (session_length >= 1) the schema_calls field of every
\* result of simulate_session is an integer >= 1.
C4_SchemaCallsAtLeastOne ==
    \A i \in DOMAIN results :
        results[i].session_length >= 1
            => /\ results[i].schema_calls \in Int
               /\ results[i].schema_calls >= 1

C4_Witness ==
    /\ pc = "done"
    /\ session_length = 1
    /\ ~eviction_rate.inf
    /\ R.schema_calls = 1

\* C5: under the compact format the per-query saving of "get" and of "list"
\* is the compact_list constant for every value of the average list size.
C5_CompactSizeInvariant ==
    \A q \in DataQueryTypes :
        /\ \A a \in AvgListItemsChoices :
               alias_savings(a, "compact", q)
                   = ALIAS_SAVINGS_PER_QUERY.compact_list
        /\ (output_format = "compact" /\ q \in DOMAIN query_breakdown)
               => query_breakdown[q].savings_per_query
                      = ALIAS_SAVINGS_PER_QUERY.compact_list

C5_Witness ==
    /\ pc = "done"
    /\ output_format = "compact"
    /\ AVG_LIST_ITEMS = 20
    /\ R.query_breakdown["list"].count > 0
    /\ R.query_breakdown["list"].savings_per_query = 5

\* C6: under the json format the per-query saving is json_get for "get" and
\* json_list_per_item * AVG_LIST_ITEMS for "list"; with twice the average
\* list size the "list" saving is twice as large.
C6_JsonScalesWithListSize ==
    (pc = "done" /\ output_format = "json")
        => /\ R.query_breakdown["get"].savings_per_query
                  = ALIAS_SAVINGS_PER_QUERY.json_get
           /\ R.query_breakdown["list"].savings_per_query
                  = ALIAS_SAVINGS_PER_QUERY.json_list_per_item * AVG_LIST_ITEMS
           /\ alias_savings(2 * AVG_LIST_ITEMS, "json", "list")
                  = 2 * R.query_breakdown["list"].savings_per_query

C6_Witness ==
    /\ pc = "done"
    /\ output_format = "json"
    /\ AVG_LIST_ITEMS = 10
    /\ R.query_breakdown["list"].count > 0
    /\ R.query_breakdown["list"].savings_per_query = 30
    /\ alias_savings(20, "json", "list") = 60

\* C7: "summary" and "other" save 0 tokens per query under every format, and
\* their breakdown entries in every result have per-query saving 0 and
\* subtotal 0.
C7_SummaryOtherZero ==
    \A q \in NoSavingQueryTypes :
        /\ \A f \in OUTPUT_FORMATS : calculate_alias_savings_per_query(f, q) = 0
        /\ \A i \in DOMAIN results :
               /\ results[i].query_breakdown[q].savings_per_query = 0
               /\ results[i].query_breakdown[q].total_savings = 0

C7_Witness ==
    /\ pc = "done"
    /\ R.query_breakdown["summary"].count > 0
    /\ R.query_breakdown["other"].count > 0
    /\ R.query_breakdown["summary"].total_savings = 0
    /\ R.query_breakdown["other"].total_savings = 0
    /\ R.total_alias_savings > 0

\* C8: net balance identity: in every result net_balance =
\* total_alias_savings - total_schema_cost, and total_schema_cost =
\* schema_calls * (call overhead + response size + result-wrapper overhead).
C8_NetBalanceIdentity ==
    \A i \in DOMAIN results :
        /\ results[i].net_balance
               = results[i].total_alias_savings - results[i].total_schema_cost
        /\ results[i].total_schema_cost
               = results[i].schema_calls
                   * (SCHEMA_CALL_TOKENS + SCHEMA_RESPONSE_TOKENS
                        + SCHEMA_RESULT_OVERHEAD)

C8_Witness ==
    /\ pc = "done"
    /\ R.schema_calls = 2
    /\ R.total_schema_cost = 170
    /\ R.total_alias_savings = 80
    /\ R.net_balance = -90

\* C9: break-even rule: with cycle length = eviction_rate when finite, else
\* session_length, and savings per cycle = avg_saving_per_query * cycle
\* length, break_even_queries is "never" when avg_saving_per_query <= 0 or
\* savings per cycle <= the schema round-trip cost, and otherwise it is the
\* quotient round-trip cost / avg_saving_per_query.
C9_BreakEvenRule ==
    \A i \in DOMAIN results :
        LET r == results[i]
            cycle == IF r.eviction_rate.inf THEN Int2Num(r.session_length)
                     ELSE r.eviction_rate
            per_cycle == Mul(r.avg_saving_per_query, cycle)
            cost == Int2Num(SCHEMA_TOTAL_ROUNDTRIP)
        IN  IF Leq(r.avg_saving_per_query, Int2Num(0)) \/ Leq(per_cycle, cost)
            THEN r.break_even_queries = INF
            ELSE /\ ~r.break_even_queries.inf
                 /\ r.break_even_queries.num * r.avg_saving_per_query.num
                        = SCHEMA_TOTAL_ROUNDTRIP * r.break_even_queries.den
                            * r.avg_saving_per_query.den

\* savings per cycle exactly equal to the round-trip cost: still "never"
C9_Witness ==
    /\ pc = "done"
    /\ ~eviction_rate.inf
    /\ Gt(R.avg_saving_per_query, Int2Num(0))
    /\ Mul(R.avg_saving_per_query, R.eviction_rate)
           = Int2Num(SCHEMA_TOTAL_ROUNDTRIP)
    /\ R.break_even_queries = INF

\* C10: whenever total_alias_savings = 0 (every session of length 0
\* included) the result has avg_saving_per_query = 0 and break_even_queries
\* "never", and no division by zero is evaluated.
C10_ZeroSavingsNeverBreaksEven ==
    /\ pc # "raised"
    /\ session_length = 0 => total_savings = 0
    /\ \A i \in DOMAIN results :
           results[i].total_alias_savings = 0
               => /\ results[i].avg_saving_per_query = Int2Num(0)
                  /\ results[i].break_even_queries = INF

C10_Witness ==
    /\ pc = "done"
    /\ session_length = 0
    /\ R.total_alias_savings = 0
    /\ R.avg_saving_per_query = Int2Num(0)
    /\ R.break_even_queries = INF

\* C11: concrete scenario A: session_length = 20, eviction_rate = 10, format
\* compact gives schema_calls = 2, total_schema_cost = 170,
\* total_alias_savings = 80, net_balance = -90 and break_even_queries "never".
C11_ScenarioA ==
    \A i \in DOMAIN results :
        ( /\ results[i].session_length = 20
          /\ results[i].eviction_rate = Int2Num(10)
          /\ results[i].output_format = "compact" )
            => /\ results[i].schema_calls = 2
               /\ results[i].total_schema_cost = 170
               /\ results[i].total_alias_savings = 80
               /\ results[i].net_balance = -90
               /\ results[i].break_even_queries = INF

C11_Witness ==
    /\ Len(results) = 1
    /\ session_length = 20
    /\ eviction_rate = Int2Num(10)
    /\ output_format = "compact"
    /\ R.query_breakdown["get"].count = 10
    /\ R.query_breakdown["list"].count = 6

\* C12: concrete scenario B: session_length = 50, eviction_rate "never",
\* format json, average list size 10 gives schema_calls = 1,
\* total_schema_cost = 85, total_alias_savings = 525, net_balance = 440,
\* avg_saving_per_query = 21/2 and break_even_queries = 170/21.
C12_ScenarioB ==
    \A i \in DOMAIN results :
        ( /\ results[i].session_length = 50
          /\ results[i].eviction_rate = INF
          /\ results[i].output_format = "json"
          /\ AVG_LIST_ITEMS = 10 )
            => /\ results[i].schema_calls = 1
               /\ results[i].total_schema_cost = 85
               /\ results[i].total_alias_savings = 525
               /\ results[i].net_balance = 440
               /\ results[i].avg_saving_per_query
                      = [inf |-> FALSE, num |-> 21, den |-> 2]
               /\ results[i].break_even_queries
                      = [inf |-> FALSE, num |-> 170, den |-> 21]

C12_Witness ==
    /\ Len(results) = 1
    /\ session_length = 50
    /\ eviction_rate = INF
    /\ output_format = "json"
    /\ AVG_LIST_ITEMS = 10
    /\ R.query_breakdown["get"].count = 25
    /\ R.query_breakdown["list"].total_savings = 450

\* reading a serialized eviction_rate back: the token, or the decimal number
RECURSIVE ParseDigits(_)
ParseDigits(text) ==
    IF text = << >> THEN 0
    ELSE 10 * ParseDigits(SubSeq(text, 1, Len(text) - 1))
           + (CHOOSE d \in 0 .. 9 : DigitChars[d + 1] = text[Len(text)])

IsDecimal(text) ==
    /\ text # << >>
    /\ \A j \in DOMAIN text : \E d \in 0 .. 9 : DigitChars[d + 1] = text[j]

ParseEviction(js) ==
    IF js.text = NEVER THEN INF ELSE Int2Num(ParseDigits(js.text))

\* C13: sentinel serialization: in every serialized result eviction_rate is
\* the text "never" exactly when the scenario's rate is the sentinel, and
\* break_even_queries is the text "never" exactly when the computed
\* break-even is the sentinel; finite values are written as decimal text,
\* respectively as a number, and the original values can be read back.
C13_SentinelSerialization ==
    \A i \in DOMAIN serializable :
        LET s == serializable[i]
            r == results[i]
        IN  /\ s.eviction_rate.type = "string"
            /\ (s.eviction_rate.text = NEVER) <=> r.eviction_rate.inf
            /\ ~r.eviction_rate.inf => IsDecimal(s.eviction_rate.text)
            /\ ParseEviction(s.eviction_rate) = r.eviction_rate
            /\ (s.break_even_queries = JsonString(NEVER))
                   <=> r.break_even_queries.inf
            /\ ~r.break_even_queries.inf
                   => /\ s.break_even_queries.type = "number"
                      /\ ~s.break_even_queries.value.inf
                      /\ s.break_even_queries.value = r.break_even_queries

\* a finite rate with a "never" break-even next to it
C13_Witness ==
    /\ pc = "serialized"
    /\ serializable[1].eviction_rate = JsonString(<<"1", "0">>)
    /\ serializable[1].break_even_queries = JsonString(NEVER)
    /\ results[1].break_even_queries = INF

C13_WitnessNeverRate ==
    /\ pc = "serialized"
    /\ serializable[1].eviction_rate = JsonString(NEVER)
    /\ serializable[1].break_even_queries.type = "number"

RECURSIVE SumSubtotals(_, _)
SumSubtotals(breakdown, j) ==
    IF j = 0 THEN 0
    ELSE SumSubtotals(breakdown, j - 1)
           + breakdown[QUERY_MIX[j].qtype].total_savings

\* C14: savings accumulation: for each query type of the mix the breakdown
\* holds count = floor(session_length * proportion), the per-query saving of
\* calculate_alias_savings_per_query for the scenario's format, and
\* subtotal = count * per-query saving; total_alias_savings is the sum of
\* the subtotals.
C14_SavingsAccumulation ==
    \A i \in DOMAIN results :
        LET r == results[i]
        IN  /\ DOMAIN r.query_breakdown
                   = {QUERY_MIX[j].qtype : j \in DOMAIN QUERY_MIX}
            /\ \A j \in DOMAIN QUERY_MIX :
                   LET e == r.query_breakdown[QUERY_MIX[j].qtype]
                       scaled == r.session_length * QUERY_MIX[j].num
                   IN  /\ e.count * QUERY_MIX[j].den <= scaled
                       /\ scaled < (e.count + 1) * QUERY_MIX[j].den
                       /\ e.savings_per_query
                              = calculate_alias_savings_per_query(
                                    r.output_format, QUERY_MIX[j].qtype)
                       /\ e.total_savings = e.count * e.savings_per_query
            /\ r.total_alias_savings
                   = SumSubtotals(r.query_breakdown, Len(QUERY_MIX))

\* session of 7: counts 3, 2, 0, 0 (the floors of 3.5, 2.1, 0.7, 0.7)
C14_Witness ==
    /\ Len(results) = 1
    /\ R.session_length = 7
    /\ R.output_format = "json"
    /\ AVG_LIST_ITEMS = 10
    /\ R.query_breakdown["get"].count = 3
    /\ R.query_breakdown["list"].count = 2
    /\ R.query_breakdown["summary"].count = 0
    /\ R.total_alias_savings = 69

\* C15: turn-by-turn equivalence: at the end of a session of
\* session_length >= 1 turns with a finite eviction_rate K >= 1 the number of
\* fetches equals calculate_schema_calls(session_length, eviction_rate), the
\* fetches having happened exactly at the turns 1, K+1, 2K+1, ... up to
\* session_length.
C15_TurnByTurnEquivalence ==
    (turn = session_length /\ session_length >= 1 /\ ~eviction_rate.inf)
        => /\ fetches
                  = calculate_schema_calls(session_length, eviction_rate)
           /\ fetch_turns
                  = {t \in 1 .. session_length :
                         (t - 1) % ToInt(eviction_rate) = 0}
           /\ Cardinality(fetch_turns) = fetches

C15_Witness ==
    /\ turn = session_length
    /\ session_length = 21
    /\ eviction_rate = Int2Num(10)
    /\ fetch_turns = {1, 11, 21}
    /\ fetches = 3

\* the same holds after every turn of the session, with "never" as well
C15_EveryTurn ==
    turn >= 1 => fetches = calculate_schema_calls(turn, eviction_rate)

C17_ProfitableHasBreakEven ==
    \A i \in DOMAIN results :
        (results[i].session_length >= 1 /\ results[i].net_balance > 0)
            => ~results[i].break_even_queries.inf

\* two eviction cycles, each of them paying for its schema call
C17_Witness ==
    /\ Len(results) = 1
    /\ R.schema_calls = 2
    /\ R.net_balance > 0
    /\ ~R.eviction_rate.inf
    /\ ~R.break_even_queries.inf

\* the converse does not hold: a finite break-even with a negative balance
C17_FiniteButUnprofitable ==
    /\ Len(results) = 1
    /\ R.net_balance < 0
    /\ ~R.break_even_queries.inf

\* what simulate_session returns as break-even for the session of result r
\* under another eviction rate k2 (total_savings does not depend on the rate)
BreakEvenUnder(r, k2) ==
    break_even_point(avg_saving(r.total_alias_savings, r.session_length),
                     k2, r.session_length)

\* C18 as stated: if the break-even of a session (session_length >= 1) is
\* finite under its eviction rate k1, it is finite under every rate
\* k2 >= k1, "never" included.
C18_Original ==
    \A i \in DOMAIN results :
        (results[i].session_length >= 1 /\ ~results[i].break_even_queries.inf)
            => \A k2 \in EvictionRates :
                   Leq(results[i].eviction_rate, k2)
                       => ~BreakEvenUnder(results[i], k2).inf

\* C18 (amended): if the break-even of a session (session_length >= 1) is
\* finite under its eviction rate k1, it is finite under every finite rate
\* k2 >= k1, and under "never" when k1 is "never" or k1 <= session_length.
C18_MoreTolerantEviction ==
    \A i \in DOMAIN results :
        LET r == results[i]
        IN  (r.session_length >= 1 /\ ~r.break_even_queries.inf)
                => \A k2 \in EvictionRates :
                       ( /\ Leq(r.eviction_rate, k2)
                         /\ k2.inf => \/ r.eviction_rate.inf
                                      \/ ToInt(r.eviction_rate)
                                             <= r.session_length )
                           => ~BreakEvenUnder(r, k2).inf

\* finite under k1 = 10 <= session_length = 20, and finite under "never"
C18_Witness ==
    /\ Len(results) = 1
    /\ R.session_length = 20
    /\ R.eviction_rate = Int2Num(10)
    /\ ~R.break_even_queries.inf
    /\ ~BreakEvenUnder(R, INF).inf
    /\ ~BreakEvenUnder(R, Int2Num(20)).inf

\* the grid of main(): session 10, compact, finite under 50 but not "never"
C18_GridCase ==
    /\ Len(results) = 1
    /\ R.session_length = 10
    /\ R.eviction_rate = Int2Num(50)
    /\ R.output_format = "compact"
    /\ R.break_even_queries = [inf |-> FALSE, num |-> 85, den |-> 4]
    /\ BreakEvenUnder(R, INF) = INF

====
